---------------------------- MODULE Spec2Model ----------------------------
(***************************************************************************)
(* Universal Data Assistant: the pipeline engine (build_graph and the      *)
(* sequential fallback runner), the eight stage functions, the citation    *)
(* formatter, the uncertainty aggregation and the file-backed dead-letter  *)
(* queue, as generated by scaffold.py.                                     *)
(*                                                                         *)
(* Python strings are TLA+ strings (Len, \o, SubSeq, Head and Tail act on  *)
(* their characters).  A Python value whose type can vary is a tagged      *)
(* record: [t |-> "None"], [t |-> "str", s |-> ..], [t |-> "int", i |-> ..]*)
(* [t |-> "list", ref |-> ..].  A dict is a function whose DOMAIN is its   *)
(* key set.  Lists that the code mutates in place (audit_trail) live in    *)
(* heap and are held by reference; floats are integers in hundredths.      *)
(***************************************************************************)
EXTENDS Integers, Sequences, FiniteSets, TLC

VARIABLES
    runner,     \* what build_graph returned: "unbuilt", "graph", "fallback"
    buildFail,  \* the construction step that raised inside build_graph, or "none"
    buildRaised,\* TRUE when build_graph let an exception reach its caller
    pc,         \* the invocation: "idle", "running", "done", "raised"
    state,      \* the State mapping the runner threads through the stages
    heap,       \* list objects by reference: heap[r] is the list's contents
    loopIdx,    \* SimplePipeline.invoke: index of the node the for loop calls next
    gnode,      \* graph runner: name of the node to run next, or END
    executed,   \* history: names of the stages that ran to completion, in order
    failedAt,   \* history: name of the stage that raised, or "none"
    input0,     \* history: the State and heap handed to invoke
    arg,        \* the dict object the caller handed to invoke, as the caller
                \* finds it now; followed for the fallback runner only (what
                \* a compiled graph does with its input is LangGraph's)
    served,     \* history: for the requests chat() answered, the query and the
                \* evidence its pipeline run retrieved
    runs,       \* invocations of the one built runner that are in progress at
                \* the same time: runs[i] is invocation i's position pc and at,
                \* its State, and, as history, the State it was given
    corpus,     \* the module-level list CORPUS of app/graph/nodes/retriever.py
    called,     \* direct call of one stage function: its name, or "none";
                \* "chat" when the request handler has returned
    ret,        \* what the call returned: the stage function's update, the
                \* handler's payload
    dlq,        \* FileDLQ: "none" before construction, then "ready"
    dlqFile,    \* the file at self.path: [exists, data]
    file0,      \* history: the file when the FileDLQ was constructed
    enqueued,   \* history: the items passed to enqueue, in call order
    rd,         \* the generator stream() returned: its state pc, its read
                \* position pos, the items it yielded out; history: base, the
                \* number of enqueue calls before it, and dirty, whether an
                \* enqueue ran while it was open
    rd0,        \* the generator of an earlier stream() call, as it was left
                \* when stream() was called again
    wr,         \* concurrent callers of enqueue: wr[c] is caller c's position
                \* pc in enqueue, its item, the text buf its file object has
                \* not written yet, and the offset pos its descriptor is at
    appendAtomic \* the platform: TRUE where a write to a file opened in
                \* append mode moves to the end and writes in one step
                \* (O_APPEND), FALSE where it seeks to the end, then writes

engineVars == <<runner, buildFail, buildRaised, pc, loopIdx, gnode, executed,
                failedAt, input0, arg, served, runs>>
stateVars == <<state, heap, corpus>>
callVars == <<called, ret>>
dlqVars == <<dlq, dlqFile, file0, enqueued, rd, rd0, wr, appendAtomic>>

vars == <<engineVars, stateVars, callVars, dlqVars>>

-----------------------------------------------------------------------------
(* Bounds of the model *)

\* longest user_query, in whitespace-separated words of Vocabulary
MaxWords == 2
\* longest audit_trail the caller's initial State already carries
MaxPre == 1
\* longest retrieved_evidence handed to a stage function called directly
MaxEv == 3
\* most enqueue calls on one FileDLQ
MaxEnq == 3
\* callers that may be inside enqueue at the same time
MaxCallers == 2
\* invocations of the runner in progress at the same time
MaxInv == 2
\* longest corpus the retriever is called on, in documents
MaxDocs == 6

-----------------------------------------------------------------------------
(* Python values *)

PyNone == [t |-> "None"]
PyStr(s) == [t |-> "str", s |-> s]
PyInt(i) == [t |-> "int", i |-> i]
PyList(r) == [t |-> "list", ref |-> r]

\* bool(v) is False
Falsy(v) ==
    \/ v.t = "None"
    \/ v.t = "str" /\ v.s = ""
    \/ v.t = "int" /\ v.i = 0

RECURSIVE IntToStr(_)
\* str(i) of a non-negative int, as an f-string renders it
IntToStr(i) ==
    LET d == SubSeq("0123456789", (i % 10) + 1, (i % 10) + 1)
    IN  IF i < 10 THEN d ELSE IntToStr(i \div 10) \o d

\* str(v), as an f-string renders a value
PyFormat(v) ==
    CASE v.t = "str" -> v.s
      [] v.t = "int" -> IntToStr(v.i)
      [] OTHER -> "None"

-----------------------------------------------------------------------------
(* str methods *)

Upper == "ABCDEFGHIJKLMNOPQRSTUVWXYZ"
LowerLetters == "abcdefghijklmnopqrstuvwxyz"

\* the lower-case letter of every upper-case letter
LowerOf ==
    LET pairs == [i \in 1..Len(Upper) |->
                    SubSeq(Upper, i, i) :> SubSeq(LowerLetters, i, i)]
        merge[i \in 0..Len(Upper)] == IF i = 0 THEN <<>> ELSE pairs[i] @@ merge[i - 1]
    IN  merge[Len(Upper)]

LowerChar(c) == IF c \in DOMAIN LowerOf THEN LowerOf[c] ELSE c

RECURSIVE Lower(_)
\* s.lower()
Lower(s) == IF s = "" THEN "" ELSE LowerChar(Head(s)) \o Lower(Tail(s))

\* k in s
Contains(s, k) ==
    \E i \in 1..(Len(s) - Len(k) + 1) : SubSeq(s, i, i + Len(k) - 1) = k

RECURSIVE CountFrom(_, _, _)
CountFrom(s, t, i) ==
    IF i + Len(t) - 1 > Len(s) THEN 0
    ELSE IF SubSeq(s, i, i + Len(t) - 1) = t
         THEN 1 + CountFrom(s, t, i + Len(t))
         ELSE CountFrom(s, t, i + 1)

\* s.count(t): non-overlapping occurrences of a non-empty t
Count(s, t) == CountFrom(s, t, 1)

IsSpace(c) == c \in {" ", "\t", "\n", "\r", "\f"}

RECURSIVE SplitFrom(_, _, _)
SplitFrom(s, i, word) ==
    IF i > Len(s) THEN (IF word = "" THEN <<>> ELSE <<word>>)
    ELSE LET c == SubSeq(s, i, i)
         IN  IF IsSpace(c)
             THEN (IF word = "" THEN <<>> ELSE <<word>>) \o SplitFrom(s, i + 1, "")
             ELSE SplitFrom(s, i + 1, word \o c)

\* s.split(): the maximal runs of non-whitespace
Split(s) == SplitFrom(s, 1, "")

RECURSIVE Join(_, _)
\* sep.join(parts)
Join(sep, parts) ==
    IF parts = <<>> THEN ""
    ELSE IF Len(parts) = 1 THEN parts[1]
    ELSE parts[1] \o sep \o Join(sep, Tail(parts))

\* s.strip() is empty
IsBlank(s) == \A i \in 1..Len(s) : IsSpace(SubSeq(s, i, i))

-----------------------------------------------------------------------------
(* dict access *)

Has(d, k) == k \in DOMAIN d

\* state.update(updates): field-level overwrite
\* an engine that takes the update for the new State
Replaced(s, updates) == updates

\* state.update(updates): the keys of updates are set, every other key is kept
Merge(s, updates) == updates @@ s

Min(a, b) == IF a < b THEN a ELSE b

\* xs[:n]
Take(xs, n) == SubSeq(xs, 1, Min(n, Len(xs)))

-----------------------------------------------------------------------------
(* app/utils/citations.py *)

\* e.get("source_uri") or e.get("doc_id", "unknown")
CitationSource(e) ==
    IF Has(e, "source_uri") /\ e["source_uri"] # "" THEN e["source_uri"]
    ELSE IF Has(e, "doc_id") THEN e["doc_id"]
    ELSE "unknown"

Citation(idx, e) ==
    LET frag == "[" \o IntToStr(idx) \o "] " \o CitationSource(e)
    IN  IF Has(e, "heading") /\ e["heading"] # ""
        THEN frag \o " :: " \o e["heading"]
        ELSE frag

\* enumerate without start=1
format_citations_zero_based(evidence) ==
    [idx \in 1..Len(evidence) |-> Citation(idx - 1, evidence[idx])]

format_citations(evidence) ==
    [idx \in 1..Len(evidence) |-> Citation(idx, evidence[idx])]

-----------------------------------------------------------------------------
(* app/utils/uncertainty.py; entropies are in hundredths *)

RECURSIVE SumEntropy(_)
SumEntropy(spans) ==
    IF spans = <<>> THEN 0
    ELSE (IF Has(Head(spans), "entropy") THEN Head(spans)["entropy"] ELSE 0)
         + SumEntropy(Tail(spans))

aggregate_uncertainty(spans) ==
    IF spans = <<>> THEN [overall |-> 0, spans |-> <<>>]
    ELSE [overall |-> SumEntropy(spans) \div Len(spans), spans |-> spans]

-----------------------------------------------------------------------------
(* app/graph/nodes: what every stage does with the audit trail *)

\* a default list made once and handed to every call that finds no audit_trail
AuditGetShared(s, h) ==
    IF Has(s, "audit_trail")
    THEN [val |-> s["audit_trail"], heap |-> h]
    ELSE [val |-> [t |-> "list", ref |-> 1],
          heap |-> IF h = <<>> THEN <<<<>>>> ELSE h]

\* audit = state.get("audit_trail", []): the list held by State, or a new list
AuditGet(s, h) ==
    IF Has(s, "audit_trail")
    THEN [val |-> s["audit_trail"], heap |-> h]
    ELSE [val |-> PyList(Len(h) + 1), heap |-> Append(h, <<>>)]

\* audit.append(rec): in place, on the list object; a value that is no list
\* (audit_trail: None) has no append and raises AttributeError
AuditAppend(s, h, rec) ==
    LET g == AuditGet(s, h)
    IN  IF g.val.t # "list"
        THEN [raised |-> TRUE, val |-> g.val, heap |-> h]
        ELSE [raised |-> FALSE, val |-> g.val,
              heap |-> [g.heap EXCEPT ![g.val.ref] = Append(@, rec)]]

Raise(h) == [raised |-> TRUE, upd |-> <<>>, heap |-> h]

\* state.get("user_query") or ""
QueryOf(s) ==
    IF Has(s, "user_query") /\ ~Falsy(s["user_query"]) THEN s["user_query"]
    ELSE PyStr("")

\* state.get("retrieved_evidence") or []
EvidenceOf(s) ==
    IF Has(s, "retrieved_evidence") THEN s["retrieved_evidence"] ELSE <<>>

\* (state.get("uncertainty") or {}).get("overall", 1.0)
OverallOf(s) ==
    IF Has(s, "uncertainty") /\ Has(s["uncertainty"], "overall")
    THEN s["uncertainty"]["overall"]
    ELSE 100

\* (state.get("validation_reports") or {}).get("faithful", False)
FaithfulOf(s) ==
    IF Has(s, "validation_reports") /\ Has(s["validation_reports"], "faithful")
    THEN s["validation_reports"]["faithful"]
    ELSE FALSE

-----------------------------------------------------------------------------
(* app/graph/nodes/router.py *)

SynthesisKeys == <<"why", "how", "compare", "design", "tradeoff">>
PolicyKeys == <<"policy", "gdpr", "security", "compliance">>

AnyIn(keys, q) == \E i \in 1..Len(keys) : Contains(q, keys[i])

\* the two tests in the other order: a synthesis keyword overrides policy
IntentSynthesisWins(q) ==
    LET first == IF AnyIn(PolicyKeys, q) THEN "policy" ELSE "lookup"
    IN  IF AnyIn(SynthesisKeys, q) THEN "synthesis" ELSE first

\* intent = "lookup"; the synthesis test may set it, then the policy test
Intent(q) ==
    LET first == IF AnyIn(SynthesisKeys, q) THEN "synthesis" ELSE "lookup"
    IN  IF AnyIn(PolicyKeys, q) THEN "policy" ELSE first

router_node(s, h) ==
    LET v == QueryOf(s)
    IN  IF v.t # "str" THEN Raise(h)        \* a non-str has no lower()
        ELSE LET intent == Intent(Lower(v.s))
                 a == AuditAppend(s, h, [node |-> "router", intent |-> intent])
             IN  IF a.raised THEN Raise(h)
                 ELSE [raised |-> FALSE,
                       upd |-> ("intent" :> intent @@ "audit_trail" :> a.val),
                       heap |-> a.heap]

-----------------------------------------------------------------------------
(* app/graph/nodes/retriever.py *)

CORPUS == <<
    [doc_id |-> "doc-1",
     heading |-> "UDA Overview",
     text |-> "Universal Data Assistant provides precise, cited answers using RAG.",
     source_uri |-> "internal://docs/uda/overview.md",
     security_tags |-> <<"public">>],
    [doc_id |-> "doc-2",
     heading |-> "Uncertainty Handling",
     text |-> "UDA tracks token-level uncertainty via logprob entropy and span aggregation.",
     source_uri |-> "internal://docs/uda/uncertainty.md",
     security_tags |-> <<"public">>] >>

\* [t for t in query.lower().split() if len(t) > 2]
Terms(query) == SelectSeq(Split(Lower(query)), LAMBDA t : Len(t) > 2)

RECURSIVE SumCounts(_, _)
\* sum(item["text"].lower().count(t) for t in terms)
SumCounts(text, terms) ==
    IF terms = <<>> THEN 0
    ELSE Count(text, Head(terms)) + SumCounts(text, Tail(terms))

Score(item, terms) == SumCounts(Lower(item["text"]), terms)

RECURSIVE InsertDescUnstable(_, _)
\* place x in front of the elements whose score equals x's
InsertDescUnstable(sorted, x) ==
    IF sorted = <<>> THEN <<x>>
    ELSE IF Head(sorted).score > x.score
         THEN <<Head(sorted)>> \o InsertDescUnstable(Tail(sorted), x)
         ELSE <<x>> \o sorted

RECURSIVE InsertDesc(_, _)
\* place x behind every element whose score is at least x's (stable, descending)
InsertDesc(sorted, x) ==
    IF sorted = <<>> THEN <<x>>
    ELSE IF Head(sorted).score >= x.score
         THEN <<Head(sorted)>> \o InsertDesc(Tail(sorted), x)
         ELSE <<x>> \o sorted

RECURSIVE SortDesc(_)
\* scored.sort(reverse=True, key=lambda x: x[0])
SortDesc(scored) ==
    IF scored = <<>> THEN <<>>
    ELSE InsertDesc(SortDesc(SubSeq(scored, 1, Len(scored) - 1)),
                    scored[Len(scored)])

\* the first k of scored: the (score, item) pairs of the corpus items whose
\* score is positive, sorted; at is the item's position in CORPUS
TopScored(query, k) ==
    IF query = "" THEN <<>>
    ELSE LET terms == Terms(query)
             all == [i \in 1..Len(corpus) |->
                        [score |-> Score(corpus[i], terms), item |-> corpus[i],
                         at |-> i]]
             scored == SortDesc(SelectSeq(all, LAMBDA x : x.score > 0))
         IN  Take(scored, k)

\* r = item; r["score"] = float(score): the score is set on the corpus item
AnnotatedInPlace(item, score) ==
    [result |-> ("score" :> score) @@ item, original |-> ("score" :> score) @@ item]

\* r = dict(item); r["score"] = float(score): the score is set on a copy, the
\* corpus item is as it was
Annotated(item, score) ==
    [result |-> ("score" :> score) @@ item, original |-> item]

simple_keyword_match(query, k) ==
    LET top == TopScored(query, k)
    IN  [i \in 1..Len(top) |-> Annotated(top[i].item, top[i].score).result]

\* CORPUS after simple_keyword_match(query, k) has returned
CorpusAfter(query, k) ==
    LET top == TopScored(query, k)
    IN  [p \in 1..Len(corpus) |->
            IF \E i \in 1..Len(top) : top[i].at = p
            THEN LET i == CHOOSE j \in 1..Len(top) : top[j].at = p
                 IN  Annotated(corpus[p], top[i].score).original
            ELSE corpus[p]]

TopK == 5

retriever_node(s, h) ==
    LET v == QueryOf(s)
    IN  IF v.t # "str" THEN Raise(h)        \* a non-str has no lower()
        ELSE LET evidence == simple_keyword_match(v.s, TopK)
                 a == AuditAppend(s, h, [node |-> "retriever", hits |-> Len(evidence)])
             IN  IF a.raised THEN Raise(h)
                 ELSE [raised |-> FALSE,
                       upd |-> ("retrieved_evidence" :> evidence @@ "audit_trail" :> a.val),
                       heap |-> a.heap]

-----------------------------------------------------------------------------
(* app/graph/nodes/ranker.py *)

ranker_node(s, h) ==
    LET ev == EvidenceOf(s)
        a == AuditAppend(s, h, [node |-> "ranker", kept |-> Len(ev)])
    IN  IF a.raised THEN Raise(h)
        ELSE [raised |-> FALSE,
              upd |-> ("retrieved_evidence" :> ev @@ "audit_trail" :> a.val),
              heap |-> a.heap]

-----------------------------------------------------------------------------
(* app/graph/nodes/answerer.py *)

\* an abstention that says nothing
AbstainEmpty == ""

ABSTAIN ==
    "I don't have enough information to answer confidently. "
    \o "Please provide more details or ingest relevant documents."

QuoteTop == 2

\* f"- {e.get('text')}"
QuoteLine(e) == "- " \o (IF Has(e, "text") THEN e["text"] ELSE "None")

GroundedDraft(query, ev) ==
    LET top == Take(ev, QuoteTop)
        lines == <<"Q: " \o PyFormat(query), "A (grounded):">>
                 \o [i \in 1..Len(top) |-> QuoteLine(top[i])]
    IN  Join("\n", lines)

\* an answerer that drafts from whatever evidence there is, even none
DraftAlwaysGrounded(query, ev) == GroundedDraft(query, ev)

\* the draft: the abstention without evidence, the quoted evidence otherwise
Draft(query, ev) == IF ev = <<>> THEN ABSTAIN ELSE GroundedDraft(query, ev)

answerer_node(s, h) ==
    LET query == QueryOf(s)
        ev == EvidenceOf(s)
        draft == Draft(query, ev)
        citations == IF ev = <<>> THEN <<>> ELSE format_citations(Take(ev, QuoteTop))
        a == AuditAppend(s, h, [node |-> "answerer", len |-> Len(draft)])
    IN  IF a.raised THEN Raise(h)
        ELSE [raised |-> FALSE,
              upd |-> ("draft_answer" :> draft @@ "citations" :> citations
                       @@ "audit_trail" :> a.val),
              heap |-> a.heap]

-----------------------------------------------------------------------------
(* app/graph/nodes/uncertainty.py *)

LowEntropy == 10
HighEntropy == 120

uncertainty_node(s, h) ==
    LET ev == EvidenceOf(s)
        spans == IF ev # <<>>
                 THEN <<[start |-> 0, end |-> 10, entropy |-> LowEntropy]>>
                 ELSE <<[start |-> 0, end |-> 10, entropy |-> HighEntropy]>>
        unc == aggregate_uncertainty(spans)
        a == AuditAppend(s, h, [node |-> "uncertainty", overall |-> unc.overall])
    IN  IF a.raised THEN Raise(h)
        ELSE [raised |-> FALSE,
              upd |-> ("uncertainty" :> unc @@ "audit_trail" :> a.val),
              heap |-> a.heap]

-----------------------------------------------------------------------------
(* app/graph/nodes/validator.py *)

\* a validator that finds every draft faithful
validator_node_lenient(s, h) ==
    LET report == [faithful |-> TRUE, checks |-> <<"stub">>]
        a == AuditAppend(s, h, [node |-> "validator", faithful |-> TRUE])
    IN  IF a.raised THEN Raise(h)
        ELSE [raised |-> FALSE,
              upd |-> ("validation_reports" :> report @@ "audit_trail" :> a.val),
              heap |-> a.heap]

validator_node(s, h) ==
    LET ev == EvidenceOf(s)
        faithful == ev # <<>>
        report == [faithful |-> faithful, checks |-> <<"stub">>]
        a == AuditAppend(s, h, [node |-> "validator", faithful |-> faithful])
    IN  IF a.raised THEN Raise(h)
        ELSE [raised |-> FALSE,
              upd |-> ("validation_reports" :> report @@ "audit_trail" :> a.val),
              heap |-> a.heap]

-----------------------------------------------------------------------------
(* app/graph/nodes/auditor.py *)

Threshold == 80

AuditorFlag(s) == (OverallOf(s) > Threshold) \/ ~FaithfulOf(s)

\* an auditor that overrides the validator's verdict when it raises its flag
auditor_node_vetoing(s, h) ==
    LET a == AuditAppend(s, h, [node |-> "auditor", flag |-> AuditorFlag(s)])
    IN  IF a.raised THEN Raise(h)
        ELSE [raised |-> FALSE,
              upd |-> IF AuditorFlag(s)
                      THEN ("validation_reports" :> [faithful |-> FALSE])
                           @@ ("audit_trail" :> a.val)
                      ELSE ("audit_trail" :> a.val),
              heap |-> a.heap]

auditor_node(s, h) ==
    LET a == AuditAppend(s, h, [node |-> "auditor", flag |-> AuditorFlag(s)])
    IN  IF a.raised THEN Raise(h)
        ELSE [raised |-> FALSE, upd |-> ("audit_trail" :> a.val), heap |-> a.heap]

-----------------------------------------------------------------------------
(* app/graph/nodes/supervisor.py *)

\* the policy of the task description: escalate unless faithful and certain
DecisionIntended(s) ==
    IF FaithfulOf(s) /\ OverallOf(s) < Threshold THEN "answer" ELSE "dlq"

Decision(s) ==
    IF FaithfulOf(s) /\ OverallOf(s) < Threshold THEN "answer"
    ELSE IF FaithfulOf(s) THEN "answer" ELSE "dlq"

supervisor_node(s, h) ==
    LET decision == Decision(s)
        a == AuditAppend(s, h, [node |-> "supervisor", decision |-> decision])
    IN  IF a.raised THEN Raise(h)
        ELSE [raised |-> FALSE,
              upd |-> ("decision" :> decision @@ "audit_trail" :> a.val),
              heap |-> a.heap]

-----------------------------------------------------------------------------
(* app/graph/__init__.py: build_graph *)

END == "__end__"

\* the node functions by the name they are registered under (add_node); what
\* a call does: whether it raised, the update returned, the list objects and
\* the module's CORPUS afterwards
NodeFn(n, s, h) ==
    ("corpus" :> IF n = "retriever" /\ QueryOf(s).t = "str"
                 THEN CorpusAfter(QueryOf(s).s, TopK) ELSE corpus)
    @@ CASE n = "router" -> router_node(s, h)
         [] n = "retriever" -> retriever_node(s, h)
         [] n = "ranker" -> ranker_node(s, h)
         [] n = "answerer" -> answerer_node(s, h)
         [] n = "uncertainty" -> uncertainty_node(s, h)
         [] n = "validator" -> validator_node(s, h)
         [] n = "auditor" -> auditor_node(s, h)
         [] n = "supervisor" -> supervisor_node(s, h)

\* a supervisor that puts the request on the dead-letter queue when it
\* decides "dlq"
EscalatedToQueue(n, s) ==
    IF n = "supervisor" /\ Decision(s) = "dlq" THEN "{\"reason\": \"dlq\"}\n" ELSE ""

\* the text a call of stage function n appends to the DLQ file: none, no
\* module of app/graph imports app.dlq or opens a file
Escalated(n, s) == ""

\* the keys of the dict each stage function returns, audit_trail apart
Owned(n) ==
    CASE n = "router" -> {"intent"}
      [] n = "retriever" -> {"retrieved_evidence"}
      [] n = "ranker" -> {"retrieved_evidence"}
      [] n = "answerer" -> {"draft_answer", "citations"}
      [] n = "uncertainty" -> {"uncertainty"}
      [] n = "validator" -> {"validation_reports"}
      [] n = "auditor" -> {}
      [] n = "supervisor" -> {"decision"}

\* the keys each stage function looks up: its state.get calls
Reads(n) ==
    {"audit_trail"} \cup
    CASE n = "router" -> {"user_query"}
      [] n = "retriever" -> {"user_query"}
      [] n = "ranker" -> {"retrieved_evidence"}
      [] n = "answerer" -> {"user_query", "retrieved_evidence"}
      [] n = "uncertainty" -> {"retrieved_evidence"}
      [] n = "validator" -> {"retrieved_evidence"}
      [] n = "auditor" -> {"uncertainty", "validation_reports"}
      [] n = "supervisor" -> {"uncertainty", "validation_reports"}

\* the tuple with two stages exchanged
NodeOrderSwapped == <<"router", "retriever", "ranker", "answerer",
                      "validator", "uncertainty", "auditor", "supervisor">>

\* the tuple with the supervisor in front of the auditor
NodeOrderSupervisorEarly == <<"router", "retriever", "ranker", "answerer",
                              "uncertainty", "validator", "supervisor", "auditor">>

\* the tuple SimplePipeline.invoke iterates over
NodeOrder == <<"router", "retriever", "ranker", "answerer",
               "uncertainty", "validator", "auditor", "supervisor">>

\* sg.add_node
GraphNodes == {"router", "retriever", "ranker", "answerer",
               "uncertainty", "validator", "auditor", "supervisor"}

\* sg.set_entry_point
EntryPoint == "router"

\* the edges with ranker wired in front of retriever
GraphEdgesSwapped == {<<"router", "ranker">>, <<"ranker", "retriever">>,
                      <<"retriever", "answerer">>, <<"answerer", "uncertainty">>,
                      <<"uncertainty", "validator">>, <<"validator", "auditor">>,
                      <<"auditor", "supervisor">>, <<"supervisor", END>>}

\* sg.add_edge
GraphEdges == {<<"router", "retriever">>, <<"retriever", "ranker">>,
               <<"ranker", "answerer">>, <<"answerer", "uncertainty">>,
               <<"uncertainty", "validator">>, <<"validator", "auditor">>,
               <<"auditor", "supervisor">>, <<"supervisor", END>>}

\* the node the compiled graph runs after n: the target of n's edge
Successor(n) == (CHOOSE e \in GraphEdges : e[1] = n)[2]

\* the statements of build_graph's try block, each of which may raise
BuildSteps == {"import", "StateGraph", "add_node", "set_entry_point",
               "add_edge", "compile"}

\* a try block that ends after the import
CaughtImportOnly(step) == step = "import"

\* except Exception: every statement of the try block is covered
Caught(step) == step \in BuildSteps

-----------------------------------------------------------------------------
(* The States a caller hands to invoke *)

\* "pro" occurs once in either document, "uncertainty" in the second only;
\* "of" is too short to be a term and "GDPR" occurs in neither
Vocabulary == {"GDPR", "pro", "uncertainty", "of"}

RECURSIVE Phrases(_)
\* the queries of exactly n words, single-spaced
Phrases(n) ==
    IF n = 0 THEN {""}
    ELSE IF n = 1 THEN Vocabulary
    ELSE {p \o " " \o w : p \in Phrases(n - 1), w \in Vocabulary}

Queries == UNION {Phrases(n) : n \in 0..MaxWords}

\* user_query: a string, None, or a value that is no string
UserQueries == {PyStr(q) : q \in Queries} \cup {PyNone, PyInt(42)}

\* a record the caller left in the trail
PreRecords == {[node |-> "caller"]}

RECURSIVE SeqsUpTo(_, _)
SeqsUpTo(S, n) ==
    IF n = 0 THEN {<<>>}
    ELSE LET shorter == SeqsUpTo(S, n - 1)
         IN  shorter \cup {Append(q, x) : q \in {r \in shorter : Len(r) = n - 1}, x \in S}

PreTrails == SeqsUpTo(PreRecords, MaxPre)

\* an initial State: user_query present or not; audit_trail absent, None or a list
InitialStates ==
    LET qs == {<<>>} \cup {("user_query" :> q) : q \in UserQueries}
    IN  {[state |-> q, heap |-> <<>>] : q \in qs}
        \cup {[state |-> ("audit_trail" :> PyNone) @@ q, heap |-> <<>>] : q \in qs}
        \cup {[state |-> ("audit_trail" :> PyList(1)) @@ q, heap |-> <<tr>>] :
                q \in qs, tr \in PreTrails}

-----------------------------------------------------------------------------
(* The pipeline: build_graph once, then invoke *)

Invocations == 1..MaxInv

\* an invocation that has not begun
NotRunning == [pc |-> "idle", at |-> END, state |-> <<>>, input |-> <<>>]

EngineIdle ==
    /\ runner = "unbuilt"
    /\ buildFail = "none"
    /\ buildRaised = FALSE
    /\ pc = "idle"
    /\ loopIdx = 0
    /\ gnode = END
    /\ executed = <<>>
    /\ failedAt = "none"
    /\ input0 = [state |-> <<>>, heap |-> <<>>]
    /\ arg = <<>>
    /\ served = {}
    /\ runs = [i \in Invocations |-> NotRunning]

CallIdle == called = "none" /\ ret = [raised |-> FALSE, upd |-> <<>>]

NoStream == [pc |-> "none", pos |-> 0, out |-> <<>>, base |-> 0, dirty |-> FALSE]

Callers == 1..MaxCallers

\* a caller that is not inside enqueue
NotWriting == [pc |-> "idle", item |-> [t |-> "dict", items |-> <<>>],
               buf |-> <<>>, pos |-> 0]

DlqIdle ==
    /\ dlq = "none"
    /\ dlqFile = [exists |-> FALSE, data |-> ""]
    /\ file0 = [exists |-> FALSE, data |-> ""]
    /\ enqueued = <<>>
    /\ rd = NoStream
    /\ rd0 = NoStream
    /\ wr = [c \in Callers |-> NotWriting]
    /\ appendAtomic = TRUE

Init ==
    /\ EngineIdle
    /\ state = <<>>
    /\ heap = <<>>
    /\ corpus = CORPUS
    /\ CallIdle
    /\ DlqIdle

\* build_graph(): the try block runs to sg.compile(), or one of its statements
\* raises and the except clause returns SimplePipeline()
BuildGraph ==
    /\ runner = "unbuilt"
    /\ ~buildRaised
    /\ \E f \in BuildSteps \cup {"none"} :
        /\ buildFail' = f
        /\ IF f = "none" THEN runner' = "graph" /\ buildRaised' = FALSE
           ELSE IF Caught(f) THEN runner' = "fallback" /\ buildRaised' = FALSE
           ELSE runner' = "unbuilt" /\ buildRaised' = TRUE
    /\ UNCHANGED <<pc, loopIdx, gnode, executed, failedAt, input0, arg, served, runs>>
    /\ UNCHANGED <<stateVars, callVars, dlqVars>>

\* graph.invoke(initial_state)
Invoke ==
    /\ runner \in {"graph", "fallback"}
    /\ pc = "idle"
    /\ \E i \in InitialStates :
        /\ state' = i.state
        /\ heap' = i.heap
        /\ input0' = i
        /\ arg' = i.state
    /\ pc' = "running"
    /\ loopIdx' = IF runner = "fallback" THEN 1 ELSE 0
    /\ gnode' = IF runner = "graph" THEN EntryPoint ELSE END
    /\ UNCHANGED <<runner, buildFail, buildRaised, executed, failedAt>>
    /\ UNCHANGED <<served, runs, corpus, callVars, dlqVars>>

\* the stage the runner calls next
Current == IF runner = "fallback" THEN NodeOrder[loopIdx] ELSE gnode

\* the runner is past its last stage
Finished(idx, node) ==
    IF runner = "fallback" THEN idx > Len(NodeOrder) ELSE node = END

\* the runner's position after the stage it just ran
Advance ==
    LET idx == IF runner = "fallback" THEN loopIdx + 1 ELSE loopIdx
        nxt == IF runner = "graph" THEN Successor(gnode) ELSE gnode
    IN  /\ loopIdx' = idx
        /\ gnode' = nxt
        /\ pc' = IF Finished(idx, nxt) THEN "done" ELSE "running"

\* SimplePipeline.invoke tolerating a failed stage (what the code must not do)
SkipFailed(n) ==
    /\ failedAt' = n
    /\ Advance
    /\ UNCHANGED <<state, heap, executed>>

\* node(state) raised: invoke has no handler, the exception leaves invoke
Propagate(n) ==
    /\ pc' = "raised"
    /\ failedAt' = n
    /\ UNCHANGED <<state, heap, loopIdx, gnode, executed>>

\* an invoke that begins with state = dict(state) and updates the copy
OnCopy(given, s) == given

\* the caller's dict after state.update(updates): the loop's state is the
\* parameter itself, one object, so the caller's dict holds what State holds
InPlace(given, s) == s

\* one stage: updates = node(state); if updates: state.update(updates)
Stage ==
    /\ pc = "running"
    /\ \E n \in {Current} : \E r \in {NodeFn(n, state, heap)} :
           /\ IF r.raised
              THEN Propagate(n)
              ELSE /\ state' = IF DOMAIN r.upd # {} THEN Merge(state, r.upd) ELSE state
                   /\ heap' = r.heap
                   /\ executed' = Append(executed, n)
                   /\ Advance
                   /\ UNCHANGED failedAt
           /\ corpus' = r.corpus
           /\ dlqFile' = [dlqFile EXCEPT !.data = @ \o Escalated(n, state)]
           /\ arg' = IF runner = "fallback" THEN InPlace(arg, state') ELSE arg
    /\ UNCHANGED <<runner, buildFail, buildRaised, input0, served, runs>>
    /\ UNCHANGED <<callVars, dlq, file0, enqueued, rd, rd0, wr, appendAtomic>>

\* an exception raised while the stage body runs (MemoryError and the like),
\* before or after the stage's audit.append: it ends invoke as well
StageFault ==
    /\ pc = "running"
    /\ LET n == Current
           r == NodeFn(n, state, heap)
       IN  /\ pc' = "raised"
           /\ failedAt' = n
           /\ \E appended \in BOOLEAN :
                heap' = IF appended /\ ~r.raised /\ Has(state, "audit_trail")
                        THEN r.heap ELSE heap
    /\ UNCHANGED <<runner, buildFail, buildRaised, loopIdx, gnode, executed, input0, arg>>
    /\ UNCHANGED <<served, runs, state, corpus, callVars, dlqVars>>

Next == BuildGraph \/ Invoke \/ Stage \/ StageFault

Spec == Init /\ [][Next]_vars

RECURSIVE RunSequential(_, _, _)
\* SimplePipeline.invoke as a function of the State it is given: the nodes of
\* the tuple from position i on, each update merged before the next node runs
RunSequential(s, h, i) ==
    IF i > Len(NodeOrder) THEN [raised |-> FALSE, state |-> s, heap |-> h]
    ELSE LET r == NodeFn(NodeOrder[i], s, h)
         IN  IF r.raised THEN [raised |-> TRUE, state |-> s, heap |-> h]
             ELSE RunSequential(IF DOMAIN r.upd # {} THEN Merge(s, r.upd) ELSE s,
                                r.heap, i + 1)

RECURSIVE Walk(_, _)
\* the nodes met from n along the edges, END excluded
Walk(n, fuel) ==
    IF n = END \/ fuel = 0 THEN <<>>
    ELSE <<n>> \o Walk(Successor(n), fuel - 1)

\* the chain of the compiled graph, from the entry point
GraphChain == Walk(EntryPoint, Cardinality(GraphNodes) + 1)

\* app/main.py chat(): the AnswerPayload built from the final State
ChatPayload(s) ==
    [answer |-> IF Has(s, "draft_answer") THEN s["draft_answer"] ELSE "",
     citations |-> IF Has(s, "citations") THEN s["citations"] ELSE <<>>,
     decision |-> IF Has(s, "decision") THEN s["decision"] ELSE "answer"]

-----------------------------------------------------------------------------
(* app/main.py: the module-level graph serving one /chat request after another *)

\* req.query: a term of both documents, a term of one, a term of none beside
\* one of both, no word
ChatQueries == {"pro", "uncertainty", "GDPR pro", ""}

\* chat(req) begins: graph.invoke({"user_query": req.query}), on a new dict;
\* the request answered before it, if any, is entered in served
Chat ==
    /\ runner \in {"graph", "fallback"}
    /\ pc \in {"idle", "done", "raised"}
    /\ \E q \in ChatQueries :
        /\ state' = ("user_query" :> PyStr(q))
        /\ input0' = [state |-> ("user_query" :> PyStr(q)), heap |-> <<>>]
        /\ arg' = ("user_query" :> PyStr(q))
    /\ heap' = <<>>
    /\ served' = IF pc = "done"
                 THEN served \cup {<<state["user_query"].s, state["retrieved_evidence"]>>}
                 ELSE served
    /\ pc' = "running"
    /\ loopIdx' = IF runner = "fallback" THEN 1 ELSE 0
    /\ gnode' = IF runner = "graph" THEN EntryPoint ELSE END
    /\ executed' = <<>>
    /\ failedAt' = "none"
    /\ UNCHANGED <<runner, buildFail, buildRaised, runs, corpus, callVars, dlqVars>>

NextServe == BuildGraph \/ Chat \/ Stage

SpecServe == Init /\ [][NextServe]_vars

-----------------------------------------------------------------------------
(* Requests served at the same time: several invocations of the module-level *)
(* graph in progress, interleaved between stages.  Each stage call runs to   *)
(* its end before another invocation's stage begins.                         *)

\* the stage the runner calls first, and the one it calls after n
FirstStage == IF runner = "fallback" THEN NodeOrder[1] ELSE EntryPoint
NextStage(n) ==
    IF runner = "fallback"
    THEN LET i == CHOOSE j \in 1..Len(NodeOrder) : NodeOrder[j] = n
         IN  IF i = Len(NodeOrder) THEN END ELSE NodeOrder[i + 1]
    ELSE Successor(n)

\* the queries of requests in progress together: with evidence, without
ConcQueries == {"pro", ""}

\* chat(req) for request i, the i-th to arrive:
\* graph.invoke({"user_query": req.query})
ConcInvoke(i) ==
    /\ runner \in {"graph", "fallback"}
    /\ runs[i].pc = "idle"
    /\ \A j \in 1..(i - 1) : runs[j].pc # "idle"
    /\ \E q \in ConcQueries :
        runs' = [runs EXCEPT ![i] = [pc |-> "running", at |-> FirstStage,
                                    state |-> ("user_query" :> PyStr(q)),
                                    input |-> ("user_query" :> PyStr(q))]]
    /\ UNCHANGED <<runner, buildFail, buildRaised, pc, loopIdx, gnode, executed,
                   failedAt, input0, arg, served>>
    /\ UNCHANGED <<stateVars, callVars, dlqVars>>

\* invocation i runs its next stage and merges the update into its State
ConcStage(i) ==
    /\ runs[i].pc = "running"
    /\ \E r \in {NodeFn(runs[i].at, runs[i].state, heap)} :
        /\ runs' = IF r.raised THEN [runs EXCEPT ![i].pc = "raised"]
                   ELSE [runs EXCEPT
                           ![i].state = IF DOMAIN r.upd # {} THEN Merge(@, r.upd) ELSE @,
                           ![i].at = NextStage(@),
                           ![i].pc = IF NextStage(runs[i].at) = END THEN "done"
                                     ELSE "running"]
        /\ heap' = r.heap
        /\ corpus' = r.corpus
    /\ UNCHANGED <<runner, buildFail, buildRaised, pc, loopIdx, gnode, executed,
                   failedAt, input0, arg, served>>
    /\ UNCHANGED <<state, callVars, dlqVars>>

\* app.main is imported: graph = build_graph() has returned one of the runners
InitRuns ==
    /\ runner \in {"graph", "fallback"}
    /\ buildFail = IF runner = "graph" THEN "none" ELSE "import"
    /\ buildRaised = FALSE
    /\ pc = "idle"
    /\ loopIdx = 0
    /\ gnode = END
    /\ executed = <<>>
    /\ failedAt = "none"
    /\ input0 = [state |-> <<>>, heap |-> <<>>]
    /\ arg = <<>>
    /\ served = {}
    /\ runs = [i \in Invocations |-> NotRunning]
    /\ state = <<>>
    /\ heap = <<>>
    /\ corpus = CORPUS
    /\ CallIdle
    /\ DlqIdle

NextRuns ==
    \/ \E i \in Invocations : ConcInvoke(i)
    \/ \E i \in Invocations : ConcStage(i)

SpecRuns == InitRuns /\ [][NextRuns]_vars

-----------------------------------------------------------------------------
(* A stage function called on its own, as the unit tests of the nodes do *)

\* evidence items: the corpus documents as the retriever returns them, an item
\* with neither text, source_uri nor heading, and one whose source_uri and
\* heading are empty
EvidenceItems ==
    {("score" :> 2) @@ CORPUS[1],
     [doc_id |-> "d"],
     [text |-> "t", source_uri |-> "", heading |-> ""]}

EvidenceLists == SeqsUpTo(EvidenceItems, MaxEv)

DirectQueries ==
    {<<>>} \cup {("user_query" :> q) :
                    q \in {PyStr(""), PyStr("why pro"), PyNone, PyInt(42)}}

DirectTrails ==
    {[state |-> <<>>, heap |-> <<>>],
     [state |-> ("audit_trail" :> PyNone), heap |-> <<>>],
     [state |-> ("audit_trail" :> PyList(1)), heap |-> << <<[node |-> "caller"]>> >>]}

\* States that differ in user_query and retrieved_evidence
EvidenceStates ==
    {[state |-> q @@ a.state, heap |-> a.heap] : q \in DirectQueries, a \in DirectTrails}
    \cup {[state |-> ("retrieved_evidence" :> ev) @@ q @@ a.state, heap |-> a.heap] :
            ev \in EvidenceLists, q \in DirectQueries, a \in DirectTrails}

Uncertainties ==
    {[overall |-> o, spans |-> <<>>] : o \in {0, 10, 79, 80, 81, 90, 120}}
    \cup {[spans |-> <<>>]}

Validations ==
    {[faithful |-> f, checks |-> <<"stub">>] : f \in BOOLEAN}
    \cup {[checks |-> <<"stub">>]}

\* the trail when the supervisor is called: no list, or a list whose last
\* record is the auditor's, with its flag up or down
SignalTrails ==
    DirectTrails
    \cup {[state |-> ("audit_trail" :> PyList(1)),
           heap |-> << <<[node |-> "auditor", flag |-> f]>> >>] : f \in BOOLEAN}

\* States that differ in uncertainty and validation_reports
SignalStates ==
    LET us == {<<>>} \cup {("uncertainty" :> u) : u \in Uncertainties}
        vs == {<<>>} \cup {("validation_reports" :> v) : v \in Validations}
    IN  {[state |-> u @@ v @@ a.state, heap |-> a.heap] :
            u \in us, v \in vs, a \in SignalTrails}

\* queries with a keyword of one list, of both, of neither; in upper case;
\* with a keyword inside a longer word
RouterQueries ==
    {"why does X fail", "what is our GDPR policy", "list files",
     "design GDPR", "SHOWING", "Compare security"}

\* States that differ in the words of user_query
RouterStates ==
    {[state |-> ("user_query" :> PyStr(q)) @@ a.state, heap |-> a.heap] :
        q \in RouterQueries, a \in DirectTrails}

DirectStates == EvidenceStates \cup SignalStates \cup RouterStates

InitNode ==
    /\ EngineIdle
    /\ \E i \in DirectStates : state = i.state /\ heap = i.heap
    /\ corpus = CORPUS
    /\ CallIdle
    /\ DlqIdle

\* updates = n(state), state being any dict
Call(n) ==
    /\ called = "none"
    /\ LET r == NodeFn(n, state, heap)
       IN  /\ called' = n
           /\ ret' = [raised |-> r.raised, upd |-> r.upd]
           /\ heap' = r.heap
           /\ corpus' = r.corpus
    /\ UNCHANGED <<state, engineVars, dlqVars>>

\* updates = node(state), for any one of the eight stage functions
DirectCall == \E n \in GraphNodes : Call(n)

NextNode == DirectCall

SpecNode == InitNode /\ [][NextNode]_vars

-----------------------------------------------------------------------------
(* retriever_node called on its own, over other corpora than the stub's *)

\* documents: two that can tie, one in upper case with a term twice
Docs ==
    {[doc_id |-> "A", text |-> "aaa bbb"],
     [doc_id |-> "B", text |-> "AAA aaa"],
     [doc_id |-> "C", text |-> "ccc"]}

Corpora == SeqsUpTo(Docs, MaxDocs)

\* queries: one term, two terms, a term in upper case beside a word too
\* short to be a term, only short words, no word
RetrieverQueries == {"aaa", "aaa bbb", "CCC of", "of a", ""}

InitRetriever ==
    /\ EngineIdle
    /\ \E q \in RetrieverQueries : state = ("user_query" :> PyStr(q))
    /\ heap = <<>>
    /\ corpus \in Corpora
    /\ CallIdle
    /\ DlqIdle

NextRetriever == Call("retriever")

SpecRetriever == InitRetriever /\ [][NextRetriever]_vars

-----------------------------------------------------------------------------
(* json: dumps(item, ensure_ascii=False) and loads, on dicts of scalars.       *)
(* A dict is [t |-> "dict", items |-> <<key, value>> pairs in insertion order] *)

PyDict(pairs) == [t |-> "dict", items |-> pairs]

Ch(s, i) == SubSeq(s, i, i)

\* the characters json writes as a two-character escape, and the letter used
Escaped == <<"\"", "\\", "\n", "\r", "\t", "\f">>
EscapeLetter == <<"\"", "\\", "n", "r", "t", "f">>

\* an encoder that escapes quotes and backslashes only
EscapeCharQuotesOnly(c) == IF c \in {"\"", "\\"} THEN "\\" \o c ELSE c

EscapeChar(c) ==
    IF \E i \in 1..Len(Escaped) : Escaped[i] = c
    THEN "\\" \o EscapeLetter[CHOOSE i \in 1..Len(Escaped) : Escaped[i] = c]
    ELSE c

RECURSIVE EscapeStr(_)
EscapeStr(s) == IF s = "" THEN "" ELSE EscapeChar(Head(s)) \o EscapeStr(Tail(s))

DumpsStr(s) == "\"" \o EscapeStr(s) \o "\""

DumpsScalar(v) ==
    CASE v.t = "str" -> DumpsStr(v.s)
      [] v.t = "int" -> IntToStr(v.i)
      [] OTHER -> "null"

\* json.dumps(item, ensure_ascii=False), separators ", " and ": "
json_dumps(item) ==
    LET members == [i \in 1..Len(item.items) |->
                       DumpsStr(item.items[i][1]) \o ": "
                       \o DumpsScalar(item.items[i][2])]
    IN  "{" \o Join(", ", members) \o "}"

JsonFail == [ok |-> FALSE, pos |-> 0]

JsonWs == {" ", "\t", "\n", "\r"}

RECURSIVE SkipWs(_, _)
SkipWs(s, i) == IF i <= Len(s) /\ Ch(s, i) \in JsonWs THEN SkipWs(s, i + 1) ELSE i

RECURSIVE ParseStrBody(_, _, _)
\* the characters after an opening quote, up to the closing one; a control
\* character inside a string is invalid
ParseStrBody(s, i, acc) ==
    IF i > Len(s) THEN JsonFail
    ELSE LET c == Ch(s, i)
         IN  IF c = "\"" THEN [ok |-> TRUE, val |-> acc, pos |-> i + 1]
             ELSE IF c = "\\"
                  THEN IF i + 1 <= Len(s)
                          /\ \E k \in 1..Len(EscapeLetter) : EscapeLetter[k] = Ch(s, i + 1)
                       THEN LET k == CHOOSE j \in 1..Len(EscapeLetter) :
                                        EscapeLetter[j] = Ch(s, i + 1)
                            IN  ParseStrBody(s, i + 2, acc \o Escaped[k])
                       ELSE JsonFail
             ELSE IF c \in {"\n", "\r", "\t", "\f"} THEN JsonFail
             ELSE ParseStrBody(s, i + 1, acc \o c)

ParseStr(s, i) ==
    IF i <= Len(s) /\ Ch(s, i) = "\"" THEN ParseStrBody(s, i + 1, "") ELSE JsonFail

Digits == "0123456789"
IsDigit(c) == \E d \in 1..10 : Ch(Digits, d) = c
DigitVal(c) == (CHOOSE d \in 1..10 : Ch(Digits, d) = c) - 1

RECURSIVE ParseDigits(_, _, _)
ParseDigits(s, i, acc) ==
    IF i <= Len(s) /\ IsDigit(Ch(s, i))
    THEN ParseDigits(s, i + 1, 10 * acc + DigitVal(Ch(s, i)))
    ELSE [ok |-> TRUE, val |-> acc, pos |-> i]

ParseScalar(s, i) ==
    IF i > Len(s) THEN JsonFail
    ELSE IF Ch(s, i) = "\""
         THEN LET r == ParseStr(s, i)
              IN  IF r.ok THEN [ok |-> TRUE, val |-> PyStr(r.val), pos |-> r.pos]
                  ELSE JsonFail
    ELSE IF IsDigit(Ch(s, i))
         THEN LET r == ParseDigits(s, i, 0)
              IN  [ok |-> TRUE, val |-> PyInt(r.val), pos |-> r.pos]
    ELSE IF i + 3 <= Len(s) /\ SubSeq(s, i, i + 3) = "null"
         THEN [ok |-> TRUE, val |-> PyNone, pos |-> i + 4]
    ELSE JsonFail

RECURSIVE ParseMembers(_, _, _)
\* "key": value pairs up to the closing brace; i is at the start of a key
ParseMembers(s, i, acc) ==
    LET k == ParseStr(s, SkipWs(s, i))
    IN  IF ~k.ok THEN JsonFail
        ELSE LET c == SkipWs(s, k.pos)
             IN  IF c > Len(s) \/ Ch(s, c) # ":" THEN JsonFail
                 ELSE LET v == ParseScalar(s, SkipWs(s, c + 1))
                      IN  IF ~v.ok THEN JsonFail
                          ELSE LET e == SkipWs(s, v.pos)
                                   pairs == Append(acc, <<k.val, v.val>>)
                               IN  IF e > Len(s) THEN JsonFail
                                   ELSE IF Ch(s, e) = "}"
                                        THEN [ok |-> TRUE, val |-> PyDict(pairs),
                                              pos |-> e + 1]
                                   ELSE IF Ch(s, e) = ","
                                        THEN ParseMembers(s, e + 1, pairs)
                                   ELSE JsonFail

ParseObject(s, i) ==
    IF i > Len(s) \/ Ch(s, i) # "{" THEN JsonFail
    ELSE LET j == SkipWs(s, i + 1)
         IN  IF j <= Len(s) /\ Ch(s, j) = "}"
             THEN [ok |-> TRUE, val |-> PyDict(<<>>), pos |-> j + 1]
             ELSE ParseMembers(s, j, <<>>)

\* json.loads(s): one value with whitespace around it; ok is FALSE where
\* loads raises JSONDecodeError
json_loads(s) ==
    LET i == SkipWs(s, 1)
        r == IF i <= Len(s) /\ Ch(s, i) = "{" THEN ParseObject(s, i)
             ELSE ParseScalar(s, i)
    IN  IF r.ok /\ SkipWs(s, r.pos) = Len(s) + 1 THEN r ELSE JsonFail

-----------------------------------------------------------------------------
(* app/dlq/queue.py: FileDLQ *)

\* the items callers enqueue
DlqItems ==
    {PyDict(<<>>),
     PyDict(<< <<"q", PyStr("a\nb")>> >>),
     PyDict(<< <<"q", PyStr("say \"hi\" \\n")>>, <<"id", PyInt(7)>> >>),
     PyDict(<< <<"id", PyInt(120)>>, <<"reason", PyNone>> >>),
     PyDict(<< <<"a\"b", PyStr("")>> >>)}

\* what the path holds before the FileDLQ is constructed: nothing, an empty
\* file, a file of one record, a file with a blank line before a record
InitialFiles ==
    {[exists |-> FALSE, data |-> ""],
     [exists |-> TRUE, data |-> ""],
     [exists |-> TRUE, data |-> "{\"id\": 1}\n"],
     [exists |-> TRUE, data |-> "\n{\"id\": 1}\n"]}

InitDLQ ==
    /\ EngineIdle
    /\ state = <<>>
    /\ heap = <<>>
    /\ corpus = CORPUS
    /\ CallIdle
    /\ dlq = "none"
    /\ dlqFile \in InitialFiles
    /\ file0 = dlqFile
    /\ enqueued = <<>>
    /\ rd = NoStream
    /\ rd0 = NoStream
    /\ wr = [c \in Callers |-> NotWriting]
    /\ appendAtomic = TRUE

\* a constructor that opens the file for writing
Truncated(f) == [exists |-> TRUE, data |-> ""]

\* self.path.touch(exist_ok=True): the file exists afterwards, its content kept
Touched(f) == [exists |-> TRUE, data |-> f.data]

\* FileDLQ(path): mkdir(parents=True, exist_ok=True); touch(exist_ok=True)
Construct ==
    /\ dlq = "none"
    /\ dlq' = "ready"
    /\ dlqFile' = Touched(dlqFile)
    /\ UNCHANGED <<file0, enqueued, rd, rd0, wr, appendAtomic>>
    /\ UNCHANGED <<engineVars, stateVars, callVars>>

\* the line enqueue writes
Line(item) == json_dumps(item) \o "\n"

\* enqueue(item): open("a"), write the line, close
EnqueueOf(items) ==
    /\ dlq = "ready"
    /\ Len(enqueued) < MaxEnq
    /\ \E item \in items :
        /\ dlqFile' = [dlqFile EXCEPT !.data = @ \o Line(item)]
        /\ enqueued' = Append(enqueued, item)
    /\ rd' = IF rd.pc = "open" THEN [rd EXCEPT !.dirty = TRUE] ELSE rd
    /\ UNCHANGED <<dlq, file0, rd0, wr, appendAtomic>>
    /\ UNCHANGED <<engineVars, stateVars, callVars>>

Enqueue == EnqueueOf(DlqItems)

\* for line in f: the characters from pos to the next newline, newline included
ReadLine(data, pos) ==
    LET ends == {i \in pos..Len(data) : Ch(data, i) = "\n"}
        last == IF ends = {} THEN Len(data)
                ELSE CHOOSE i \in ends : \A j \in ends : i <= j
    IN  SubSeq(data, pos, last)

RECURSIVE NextRecord(_, _)
\* the generator up to its next yield: blank lines are passed over; at the end
\* of the file the generator returns; a line loads cannot parse raises
NextRecord(data, pos) ==
    IF pos > Len(data) THEN [kind |-> "eof", pos |-> pos]
    ELSE LET line == ReadLine(data, pos)
             after == pos + Len(line)
         IN  IF IsBlank(line) THEN NextRecord(data, after)
             ELSE LET r == json_loads(line)
                  IN  IF r.ok THEN [kind |-> "yield", val |-> r.val, pos |-> after]
                      ELSE [kind |-> "raise", pos |-> after]

\* stream(): a new generator; the file is opened when it is first advanced
StreamStart ==
    /\ dlq = "ready"
    /\ rd.pc \in {"none", "done", "raised"}
    /\ rd' = [pc |-> "open", pos |-> 1, out |-> <<>>, base |-> Len(enqueued),
              dirty |-> FALSE]
    /\ UNCHANGED <<dlq, dlqFile, file0, enqueued, rd0, wr, appendAtomic>>
    /\ UNCHANGED <<engineVars, stateVars, callVars>>

\* next() on the generator
StreamNext ==
    /\ rd.pc = "open"
    /\ LET r == NextRecord(dlqFile.data, rd.pos)
       IN  rd' = CASE r.kind = "yield" ->
                        [rd EXCEPT !.pos = r.pos, !.out = Append(@, r.val)]
                   [] r.kind = "eof" -> [rd EXCEPT !.pc = "done", !.pos = r.pos]
                   [] OTHER -> [rd EXCEPT !.pc = "raised", !.pos = r.pos]
    /\ UNCHANGED <<dlq, dlqFile, file0, enqueued, rd0, wr, appendAtomic>>
    /\ UNCHANGED <<engineVars, stateVars, callVars>>

NextDLQ == Construct \/ Enqueue \/ StreamStart \/ StreamNext

SpecDLQ == InitDLQ /\ [][NextDLQ]_vars

-----------------------------------------------------------------------------
(* FileDLQ.enqueue called by several callers at once, beside one reader.      *)
(* enqueue has no lock: each call opens its own file object in append mode,   *)
(* write() leaves the line in that object's buffer, and leaving the with      *)
(* block flushes the buffer to the descriptor and closes it.                  *)

\* the items concurrent callers enqueue: their lines differ in length
ConcItems ==
    {PyDict(<< <<"id", PyInt(7)>> >>),
     PyDict(<< <<"q", PyStr("a\nb")>> >>)}

\* a flush that hands the line to the descriptor in two writes
ChunksHalved(line) ==
    <<SubSeq(line, 1, Len(line) \div 2),
      SubSeq(line, (Len(line) \div 2) + 1, Len(line))>>

\* what the flush at close hands to the descriptor: the one string f.write
\* was given, in one write
Chunks(line) == <<line>>

\* a write of chunk at offset pos of the file
WriteAt(data, pos, chunk) ==
    LET before == IF pos > 1 THEN SubSeq(data, 1, pos - 1) ELSE ""
        from == pos + Len(chunk)
        rest == IF from <= Len(data) THEN SubSeq(data, from, Len(data)) ELSE ""
    IN  before \o chunk \o rest

\* enqueue calls begun so far
Begun == Len(enqueued) + Cardinality({c \in Callers : wr[c].pc # "idle"})

InitConc ==
    /\ EngineIdle
    /\ state = <<>>
    /\ heap = <<>>
    /\ corpus = CORPUS
    /\ CallIdle
    /\ dlq = "none"
    /\ dlqFile \in InitialFiles
    /\ file0 = dlqFile
    /\ enqueued = <<>>
    /\ rd = NoStream
    /\ rd0 = NoStream
    /\ wr = [c \in Callers |-> NotWriting]
    /\ appendAtomic \in BOOLEAN

\* with self.path.open("a", encoding="utf-8") as f
EnqOpen(c) ==
    /\ dlq = "ready"
    /\ wr[c].pc = "idle"
    /\ Begun < MaxEnq
    /\ \E item \in ConcItems :
        wr' = [wr EXCEPT ![c] = [pc |-> "open", item |-> item, buf |-> <<>>,
                                 pos |-> 0]]
    /\ dlqFile' = [dlqFile EXCEPT !.exists = TRUE]
    /\ UNCHANGED <<dlq, file0, enqueued, rd, rd0, appendAtomic>>
    /\ UNCHANGED <<engineVars, stateVars, callVars>>

\* f.write(json.dumps(item, ensure_ascii=False) + "\n"): into the buffer
EnqWrite(c) ==
    /\ wr[c].pc = "open"
    /\ wr' = [wr EXCEPT ![c].pc = "buffered", ![c].buf = Chunks(Line(wr[c].item))]
    /\ UNCHANGED <<dlq, dlqFile, file0, enqueued, rd, rd0, appendAtomic>>
    /\ UNCHANGED <<engineVars, stateVars, callVars>>

\* caller c's descriptor has written the next chunk: the call returns when
\* none is left
Written(c) ==
    /\ wr' = IF Len(wr[c].buf) = 1
             THEN [wr EXCEPT ![c] = NotWriting]
             ELSE [wr EXCEPT ![c].pc = "buffered", ![c].buf = Tail(@)]
    /\ enqueued' = IF Len(wr[c].buf) = 1 THEN Append(enqueued, wr[c].item)
                   ELSE enqueued
    /\ rd' = IF rd.pc = "open" THEN [rd EXCEPT !.dirty = TRUE] ELSE rd

\* leaving the with block, where append is one step: the chunk lands at the
\* end of the file as it is now
EnqFlush(c) ==
    /\ wr[c].pc = "buffered"
    /\ appendAtomic
    /\ dlqFile' = [dlqFile EXCEPT !.data = @ \o Head(wr[c].buf)]
    /\ Written(c)
    /\ UNCHANGED <<dlq, file0, rd0, appendAtomic>>
    /\ UNCHANGED <<engineVars, stateVars, callVars>>

\* leaving the with block, where append is a seek to the end ...
EnqSeek(c) ==
    /\ wr[c].pc = "buffered"
    /\ ~appendAtomic
    /\ wr' = [wr EXCEPT ![c].pc = "seeked", ![c].pos = Len(dlqFile.data) + 1]
    /\ UNCHANGED <<dlq, dlqFile, file0, enqueued, rd, rd0, appendAtomic>>
    /\ UNCHANGED <<engineVars, stateVars, callVars>>

\* ... followed by a write at the offset found
EnqPut(c) ==
    /\ wr[c].pc = "seeked"
    /\ dlqFile' = [dlqFile EXCEPT !.data = WriteAt(@, wr[c].pos, Head(wr[c].buf))]
    /\ Written(c)
    /\ UNCHANGED <<dlq, file0, rd0, appendAtomic>>
    /\ UNCHANGED <<engineVars, stateVars, callVars>>

NextConc ==
    \/ Construct
    \/ \E c \in Callers : EnqOpen(c)
    \/ \E c \in Callers : EnqWrite(c)
    \/ \E c \in Callers : EnqFlush(c)
    \/ \E c \in Callers : EnqSeek(c)
    \/ \E c \in Callers : EnqPut(c)
    \/ StreamStart
    \/ StreamNext

SpecConc == InitConc /\ [][NextConc]_vars

RECURSIVE Records(_, _)
\* list(stream()) of a file holding data, read from pos with no writer about:
\* the records yielded, and whether the iteration ended without raising
Records(data, pos) ==
    LET r == NextRecord(data, pos)
    IN  IF r.kind = "eof" THEN [ok |-> TRUE, out |-> <<>>]
        ELSE IF r.kind = "raise" THEN [ok |-> FALSE, out |-> <<>>]
        ELSE LET more == Records(data, r.pos)
             IN  [ok |-> more.ok, out |-> <<r.val>> \o more.out]

-----------------------------------------------------------------------------
(* stream() called more than once on one FileDLQ.  Every call returns a new   *)
(* generator; the generator of the call before is left where it was, whether  *)
(* it was run to its end or not.                                              *)

\* the items enqueued between the calls
RestartItems ==
    {PyDict(<< <<"id", PyInt(7)>> >>),
     PyDict(<< <<"q", PyStr("a\nb")>> >>)}

\* what the file holds at construction: nothing, a blank line before a
\* record, two records with a line of blanks and an empty line between them
RestartFiles ==
    {[exists |-> TRUE, data |-> ""],
     [exists |-> TRUE, data |-> "\n{\"id\": 1}\n"],
     [exists |-> TRUE, data |-> "{\"id\": 1}\n \t\n\n{\"id\": 2}\n"]}

InitRestart ==
    /\ EngineIdle
    /\ state = <<>>
    /\ heap = <<>>
    /\ corpus = CORPUS
    /\ CallIdle
    /\ dlq = "none"
    /\ dlqFile \in RestartFiles
    /\ file0 = dlqFile
    /\ enqueued = <<>>
    /\ rd = NoStream
    /\ rd0 = NoStream
    /\ wr = [c \in Callers |-> NotWriting]
    /\ appendAtomic = TRUE

\* a generator that goes on where the one before it stopped
Resumed(earlier, n) ==
    [pc |-> "open", pos |-> earlier.pos, out |-> <<>>, base |-> n, dirty |-> FALSE]

\* the generator a stream() call returns: self.path.open("r") opens the file
\* anew, at its first character, whatever the generator before it has read
Opened(earlier, n) ==
    [pc |-> "open", pos |-> 1, out |-> <<>>, base |-> n, dirty |-> FALSE]

\* stream() called again: after an iteration that ended, or while the
\* generator of the call before is part-way and is not advanced any more
StreamAgain ==
    /\ dlq = "ready"
    /\ rd.pc # "none"
    /\ rd0' = rd
    /\ rd' = Opened(rd, Len(enqueued))
    /\ UNCHANGED <<dlq, dlqFile, file0, enqueued, wr, appendAtomic>>
    /\ UNCHANGED <<engineVars, stateVars, callVars>>

NextRestart ==
    \/ Construct
    \/ EnqueueOf(RestartItems)
    \/ StreamStart
    \/ StreamAgain
    \/ StreamNext

SpecRestart == InitRestart /\ [][NextRestart]_vars

-----------------------------------------------------------------------------
(* The application beside a dead-letter queue: app/main.py serves /chat       *)
(* requests while a FileDLQ on settings.dlq_file may be constructed by other  *)
(* code (the tests do).  Neither app/main.py nor app/graph constructs one.     *)

InitApp ==
    /\ EngineIdle
    /\ state = <<>>
    /\ heap = <<>>
    /\ corpus = CORPUS
    /\ CallIdle
    /\ dlq = "none"
    /\ dlqFile \in InitialFiles
    /\ file0 = dlqFile
    /\ enqueued = <<>>
    /\ rd = NoStream
    /\ rd0 = NoStream
    /\ wr = [c \in Callers |-> NotWriting]
    /\ appendAtomic = TRUE

\* chat() after graph.invoke returned: return AnswerPayload(...)
ChatReturn ==
    /\ pc = "done"
    /\ pc' = "idle"
    /\ called' = "chat"
    /\ ret' = [raised |-> FALSE, upd |-> ChatPayload(state)]
    /\ UNCHANGED <<runner, buildFail, buildRaised, loopIdx, gnode, executed,
                   failedAt, input0, arg, served, runs>>
    /\ UNCHANGED <<stateVars, dlqVars>>

NextApp == BuildGraph \/ Chat \/ Stage \/ ChatReturn \/ Construct

SpecApp == InitApp /\ [][NextApp]_vars

-----------------------------------------------------------------------------
(* The fallback runner invoked on the State an earlier invoke returned *)

\* most invocations that are handed the State returned by the one before
MaxAgain == 1

\* the query the caller puts into the returned State before the next invoke
AgainQueries == {"pro", ""}

\* build_graph() has returned SimplePipeline(): the import of langgraph failed
InitAgain ==
    /\ runner = "fallback"
    /\ buildFail = "import"
    /\ buildRaised = FALSE
    /\ pc = "idle"
    /\ loopIdx = 0
    /\ gnode = END
    /\ executed = <<>>
    /\ failedAt = "none"
    /\ input0 = [state |-> <<>>, heap |-> <<>>]
    /\ arg = <<>>
    /\ served = {}
    /\ runs = [i \in Invocations |-> NotRunning]
    /\ state = <<>>
    /\ heap = <<>>
    /\ corpus = CORPUS
    /\ CallIdle
    /\ DlqIdle

\* s = graph.invoke(...); s["user_query"] = q; graph.invoke(s)
InvokeAgain ==
    /\ runner = "fallback"
    /\ pc = "done"
    /\ Len(heap[state["audit_trail"].ref]) <= 8 * MaxAgain + MaxPre
    /\ \E q \in AgainQueries :
        /\ state' = ("user_query" :> PyStr(q)) @@ state
        /\ input0' = [state |-> ("user_query" :> PyStr(q)) @@ state, heap |-> heap]
        /\ arg' = ("user_query" :> PyStr(q)) @@ state
    /\ pc' = "running"
    /\ loopIdx' = 1
    /\ executed' = <<>>
    /\ UNCHANGED <<runner, buildFail, buildRaised, gnode, failedAt, served, runs>>
    /\ UNCHANGED <<heap, corpus, callVars, dlqVars>>

NextAgain == Invoke \/ Stage \/ InvokeAgain

SpecAgain == InitAgain /\ [][NextAgain]_vars

-----------------------------------------------------------------------------
(* Properties *)

ExpectedOrder == <<"router", "retriever", "ranker", "answerer",
                   "uncertainty", "validator", "auditor", "supervisor">>

\* the list audit_trail refers to, empty when State holds no list
TrailOf(s, h) ==
    IF Has(s, "audit_trail") /\ s["audit_trail"].t = "list"
    THEN h[s["audit_trail"].ref]
    ELSE <<>>

NodeNames(trail) == [i \in 1..Len(trail) |-> trail[i].node]

IsPrefix(p, q) == Len(p) <= Len(q) /\ SubSeq(q, 1, Len(p)) = p

PositionOf(n) == CHOOSE i \in 1..Len(ExpectedOrder) : ExpectedOrder[i] = n

FreshInput ==
    Has(input0.state, "user_query") /\ ~Has(input0.state, "audit_trail")

\* C1: from an initial State with a user_query and no audit_trail, the trail's
\* node names between stages are exactly the stages completed so far, a prefix
\* of router, retriever, ranker, answerer, uncertainty, validator, auditor,
\* supervisor; a complete run ends with exactly these 8 records in this order.
C1_AuditTrailOrder ==
    (pc \in {"running", "done"} /\ FreshInput) =>
        /\ NodeNames(TrailOf(state, heap)) = executed
        /\ IsPrefix(executed, ExpectedOrder)
        /\ (pc = "done" => /\ Len(TrailOf(state, heap)) = 8
                           /\ NodeNames(TrailOf(state, heap)) = ExpectedOrder)

C1_Witness ==
    /\ pc = "done"
    /\ FreshInput
    /\ Len(TrailOf(state, heap)) = 8
    /\ TrailOf(state, heap)[8] = [node |-> "supervisor", decision |-> "answer"]

\* the fields first written by the stage at position k or by a later stage
LaterFields(k) ==
    LET writes == [n \in GraphNodes |->
                    CASE n = "router" -> {"intent"}
                      [] n = "retriever" -> {"retrieved_evidence"}
                      [] n = "ranker" -> {"retrieved_evidence"}
                      [] n = "answerer" -> {"draft_answer", "citations"}
                      [] n = "uncertainty" -> {"uncertainty"}
                      [] n = "validator" -> {"validation_reports"}
                      [] n = "auditor" -> {}
                      [] n = "supervisor" -> {"decision"}]
    IN  UNION {writes[ExpectedOrder[j]] : j \in k..Len(ExpectedOrder)}
        \ UNION {writes[ExpectedOrder[j]] : j \in 1..(k - 1)}

\* the state after a stage raised: invoke is over, only the stages before the
\* failing one ran, none of the later fields is written and the trail holds the
\* records of the stages that ran (and at most the failing stage's own record)
AfterFailure ==
    failedAt # "none" =>
        LET k == PositionOf(failedAt)
            tr == TrailOf(state, heap)
            pre == TrailOf(input0.state, input0.heap)
            own == SubSeq(tr, Len(pre) + 1, Len(tr))
        IN  /\ pc = "raised"
            /\ executed = SubSeq(ExpectedOrder, 1, k - 1)
            /\ \A f \in LaterFields(k) :
                    /\ Has(state, f) <=> Has(input0.state, f)
                    /\ Has(state, f) => state[f] = input0.state[f]
            /\ IsPrefix(pre, tr)
            /\ \/ NodeNames(own) = executed
               \/ NodeNames(own) = Append(executed, failedAt)

\* C2: a stage that raises ends invoke: the exception is not caught, invoke
\* never returns a final State afterwards, and no stage scheduled after the
\* failing one runs, writes a field or appends an audit record.
C2_StageFailurePropagates ==
    /\ []AfterFailure
    /\ [][failedAt # "none" =>
            /\ pc' = "raised"
            /\ UNCHANGED <<state, heap, executed, failedAt>>]_vars

C2_Witness ==
    /\ pc = "raised"
    /\ failedAt = "answerer"
    /\ executed = <<"router", "retriever", "ranker">>
    /\ Has(state, "retrieved_evidence")
    /\ ~Has(state, "draft_answer")

\* C3: build_graph never raises: whichever statement of the construction
\* fails, it returns the fallback runner, which runs the eight stages in the
\* fixed order; a stage that raises during invoke is not caught.
C3_BuildFallsBack ==
    /\ ~buildRaised
    /\ (buildFail # "none" => runner = "fallback")
    /\ (runner = "fallback" =>
            /\ IsPrefix(executed, ExpectedOrder)
            /\ (pc = "done" => executed = ExpectedOrder)
            /\ (failedAt # "none" => pc = "raised"))

C3_Witness ==
    /\ buildFail = "add_edge"
    /\ runner = "fallback"
    /\ pc = "done"
    /\ executed = ExpectedOrder

C9_AnswerNeverEmpty ==
    pc = "done" =>
        /\ Has(state, "draft_answer")
        /\ Len(state["draft_answer"]) > 0
        /\ ChatPayload(state).answer # ""

C9_Witness ==
    /\ pc = "done"
    /\ ~Has(input0.state, "user_query")
    /\ ChatPayload(state).answer = ABSTAIN

\* the stage function called directly returned an update
Returned(n) == called = n /\ ~ret.raised

C6_SupervisorIntendedPolicy ==
    Returned("supervisor") =>
        ret.upd["decision"] =
            IF FaithfulOf(state) /\ OverallOf(state) < 80 THEN "answer" ELSE "dlq"

\* C7: whenever retrieved_evidence is empty or absent when the answerer runs,
\* draft_answer is the fixed abstention message and citations is empty,
\* whatever user_query is.
C7_AbstainWithoutEvidence ==
    (Returned("answerer") /\ EvidenceOf(state) = <<>>) =>
        /\ ret.upd["draft_answer"] =
             "I don't have enough information to answer confidently. "
             \o "Please provide more details or ingest relevant documents."
        /\ ret.upd["citations"] = <<>>

C7_Witness ==
    /\ Returned("answerer")
    /\ ~Has(state, "retrieved_evidence")
    /\ Has(state, "user_query") /\ state["user_query"] = PyStr("why pro")
    /\ ret.upd["citations"] = <<>>
    /\ Len(ret.upd["draft_answer"]) = 112

StartsWith(s, p) == Len(p) <= Len(s) /\ SubSeq(s, 1, Len(p)) = p

\* s.split("\n")
TextLines(s) ==
    LET nl == {i \in 1..Len(s) : Ch(s, i) = "\n"}
        at(k) == CHOOSE p \in nl : Cardinality({q \in nl : q < p}) = k - 1
    IN  [k \in 1..(Cardinality(nl) + 1) |->
            SubSeq(s, IF k = 1 THEN 1 ELSE at(k - 1) + 1,
                      IF k = Cardinality(nl) + 1 THEN Len(s) ELSE at(k) - 1)]

\* C8: for non-empty evidence the answerer produces min(2, len(evidence))
\* citations; citation i starts with '[i]' and names the source of the i-th
\* ranked item, and the i-th quoted line of draft_answer is that item's text:
\* citations are in quotation order.
C8_CitationsFollowQuotes ==
    (Returned("answerer") /\ EvidenceOf(state) # <<>>) =>
        LET ev == EvidenceOf(state)
            cit == ret.upd["citations"]
            lines == TextLines(ret.upd["draft_answer"])
            n == IF Len(ev) < 2 THEN Len(ev) ELSE 2
        IN  /\ Len(cit) = n
            /\ Len(lines) = 2 + n
            /\ \A i \in 1..n :
                /\ StartsWith(cit[i], "[" \o IntToStr(i) \o "] " \o CitationSource(ev[i]))
                /\ lines[2 + i] = "- " \o (IF Has(ev[i], "text") THEN ev[i]["text"] ELSE "None")

C8_Witness ==
    /\ Returned("answerer")
    /\ Len(EvidenceOf(state)) = 3
    /\ Len(ret.upd["citations"]) = 2
    /\ ret.upd["citations"][2] = "[2] internal://docs/uda/overview.md :: UDA Overview"
    /\ ret.upd["citations"][1] = "[1] unknown"

\* C10: on a DLQ whose file was empty (or absent) at construction, a stream()
\* that runs with no enqueue during it completes without error and yields
\* exactly the records enqueued before it, as many and in enqueue order, each
\* equal to the record enqueued, also when its strings contain newlines.
C10_DlqRoundTrip ==
    (file0.data = "" /\ rd.pc # "none" /\ ~rd.dirty) =>
        /\ rd.pc # "raised"
        /\ IsPrefix(rd.out, enqueued)
        /\ (rd.pc = "done" => rd.out = SubSeq(enqueued, 1, rd.base))

C10_Witness ==
    /\ file0.data = ""
    /\ rd.pc = "done"
    /\ ~rd.dirty
    /\ Len(rd.out) = 3
    /\ rd.out = enqueued
    /\ rd.out[1] = PyDict(<< <<"q", PyStr("a\nb")>> >>)
    /\ rd.out[2] # rd.out[1]
    /\ rd.out[3] # rd.out[2]

RECURSIVE Lines(_)
\* the lines enqueue writes for items, one after the other
Lines(items) == IF items = <<>> THEN "" ELSE Line(Head(items)) \o Lines(Tail(items))

AllIdle == \A c \in Callers : wr[c].pc = "idle"

\* C11: under any interleaving of concurrent enqueue calls, once all calls
\* have returned the file holds, after what it held at construction, exactly
\* one complete, parseable line per call: no record is lost, duplicated,
\* truncated or mixed with the bytes of another.
C11_ConcurrentEnqueueSafe ==
    AllIdle =>
        /\ Records(dlqFile.data, 1).ok
        /\ Records(dlqFile.data, 1).out = Records(file0.data, 1).out \o enqueued
        /\ dlqFile.data = file0.data \o Lines(enqueued)

\* every write so far landed behind what the file held: the file is what it
\* held at construction followed by the lines of the calls that returned
Intact == dlqFile.data = file0.data \o Lines(enqueued)

C13_AppendOnly ==
    [][\A before \in {Records(dlqFile.data, 1).out} :
       \A after \in {Records(dlqFile'.data, 1).out} :
           /\ StartsWith(dlqFile'.data, dlqFile.data)
           /\ IsPrefix(before, after)
           /\ (dlq' # dlq => dlqFile'.data = dlqFile.data)
           /\ (enqueued' = enqueued => dlqFile'.data = dlqFile.data)
           /\ (enqueued' # enqueued =>
                    /\ Len(after) = Len(before) + 1
                    /\ after[Len(after)] = enqueued'[Len(enqueued')])]_vars

C13_Witness ==
    /\ dlq = "ready"
    /\ file0.data = "{\"id\": 1}\n"
    /\ Len(enqueued) = 2
    /\ rd.pc = "done"
    /\ Records(dlqFile.data, 1).out = <<PyDict(<< <<"id", PyInt(1)>> >>)>> \o enqueued

\* C14: the router classifies the lowercased query: 'policy' whenever one of
\* policy, gdpr, security, compliance occurs in it, also beside a synthesis
\* keyword; otherwise 'synthesis' whenever one of why, how, compare, design,
\* tradeoff occurs; otherwise 'lookup'.  It writes one of these three values.
C14_RouterClassification ==
    Returned("router") =>
        LET q == Lower(QueryOf(state).s)
            policy == \E k \in {"policy", "gdpr", "security", "compliance"} :
                        Contains(q, k)
            synthesis == \E k \in {"why", "how", "compare", "design", "tradeoff"} :
                            Contains(q, k)
            intent == ret.upd["intent"]
        IN  /\ intent \in {"lookup", "synthesis", "policy"}
            /\ (policy => intent = "policy")
            /\ (~policy /\ synthesis => intent = "synthesis")
            /\ (~policy /\ ~synthesis => intent = "lookup")
            /\ TrailOf(ret.upd, heap)[Len(TrailOf(ret.upd, heap))]
                 = [node |-> "router", intent |-> intent]

C14_Witness ==
    /\ Returned("router")
    /\ Has(state, "user_query")
    /\ state["user_query"] = PyStr("design GDPR")
    /\ ret.upd["intent"] = "policy"

RECURSIVE SeqSum(_)
SeqSum(xs) == IF xs = <<>> THEN 0 ELSE Head(xs) + SeqSum(Tail(xs))

\* the score of every document of docs for a query: the sum, over the query's
\* words longer than 2 characters, of the word's occurrences in the text
WordScores(query, docs) ==
    LET words == Split(Lower(query))
        long == SelectSeq(words, LAMBDA w : Len(w) > 2)
    IN  [p \in 1..Len(docs) |->
            LET text == Lower(docs[p]["text"])
            IN  SeqSum([i \in 1..Len(long) |-> Count(text, long[i])])]

\* C15: for every query and corpus the retriever returns at most 5 items; the
\* items are the documents of positive score, each with its score, the sum
\* over the query's words longer than 2 characters of the word's occurrences
\* in the document text, case ignored; they are in non-increasing score order,
\* equal scores in corpus order, and when more than 5 documents score no
\* document is left out for one that ranks behind it.  A query with no word
\* longer than 2 characters yields no evidence.
C15_RetrieverRanking ==
    Returned("retriever") =>
        \A S \in {WordScores(QueryOf(state).s, corpus)} :
            LET P == {p \in 1..Len(corpus) : S[p] > 0}
                Ahead(p) == {o \in P : S[o] > S[p] \/ (S[o] = S[p] /\ o < p)}
                R == ret.upd["retrieved_evidence"]
            IN  /\ Len(R) <= 5
                /\ Len(R) = IF Cardinality(P) < 5 THEN Cardinality(P) ELSE 5
                /\ \A j \in 1..Len(R) :
                    \E p \in P : /\ Cardinality(Ahead(p)) = j - 1
                                 /\ R[j] = ("score" :> S[p]) @@ corpus[p]
                                 /\ R[j]["score"] > 0
                /\ \A j \in 1..(Len(R) - 1) : R[j]["score"] >= R[j + 1]["score"]
                /\ ((\A p \in 1..Len(corpus) : S[p] = 0) => R = <<>>)
                /\ \A words \in {Split(QueryOf(state).s)} :
                        (\A i \in 1..Len(words) : Len(words[i]) <= 2) => R = <<>>

C15_Witness ==
    /\ Returned("retriever")
    /\ Len(corpus) = 6
    /\ state["user_query"] = PyStr("aaa bbb")
    /\ Len(ret.upd["retrieved_evidence"]) = 5
    /\ ret.upd["retrieved_evidence"][1]["doc_id"] = "B"
    /\ ret.upd["retrieved_evidence"][2]["doc_id"] = "A"
    /\ ret.upd["retrieved_evidence"][2]["score"] = 2
    /\ corpus[6]["doc_id"] = "B"

\* C16: whatever invocations came before, the same query retrieves the same
\* ranked evidence, item for item and score for score, and no invocation
\* modifies the corpus: the scores are set on copies of its items.
C16_RetrieverDeterministic ==
    /\ corpus = CORPUS
    /\ \A a \in served : \A b \in served : a[1] = b[1] => a[2] = b[2]
    /\ (Has(state, "retrieved_evidence") =>
            \A a \in served :
                a[1] = QueryOf(state).s => a[2] = state["retrieved_evidence"])

C16_Witness ==
    /\ pc = "done"
    /\ state["user_query"] = PyStr("pro")
    /\ Len(state["retrieved_evidence"]) = 2
    /\ state["retrieved_evidence"][1]["score"] = 1
    /\ <<"pro", state["retrieved_evidence"]>> \in served
    /\ \E a \in served : a[1] = "uncertainty" /\ Len(a[2]) = 1
    /\ \E a \in served : a[1] = "GDPR pro"

\* C17: decision is a terminal field: within a run it is absent until the
\* supervisor runs, the supervisor writes it, once, as the last stage
\* executed, and no step changes it afterwards.
C17_DecisionTerminal ==
    /\ [](Has(state, "decision") =>
            /\ pc = "done"
            /\ Len(executed) = 8
            /\ executed[8] = "supervisor"
            /\ \A i \in 1..7 : executed[i] # "supervisor"
            /\ state["decision"] \in {"answer", "dlq"})
    /\ [](pc = "done" => Has(state, "decision"))
    /\ [][/\ (~Has(state, "decision") /\ Has(state', "decision") =>
                Current = "supervisor" /\ pc' = "done")
          /\ (Has(state, "decision") =>
                Has(state', "decision") /\ state'["decision"] = state["decision"])]_vars

C17_Witness ==
    /\ pc = "done"
    /\ runner = "fallback"
    /\ state["decision"] = "dlq"
    /\ executed[8] = "supervisor"
    /\ TrailOf(state, heap)[Len(TrailOf(state, heap))]
         = [node |-> "supervisor", decision |-> "dlq"]

\* C18: every stage treats the audit_trail it reads as immutable: it returns a
\* new sequence, the prior one followed by its record, and leaves the prior
\* sequence as it was, so the list object the caller put into the initial
\* State holds, during and after the run, what it held when invoke was called.
C18_TrailNeverMutated ==
    pc \in {"running", "done", "raised"} =>
        \A r \in 1..Len(input0.heap) : heap[r] = input0.heap[r]

\* the State with the list audit_trail refers to in place of the reference
Deref(s, h) ==
    IF Has(s, "audit_trail") /\ s["audit_trail"].t = "list"
    THEN ("audit_trail" :> h[s["audit_trail"].ref]) @@ s
    ELSE s

\* C19: invocations of the one runner that are in progress together, each on
\* its own new State, do not affect each other: every invocation ends in the
\* State, audit trail of 8 records included, that it reaches when run alone,
\* and at no time do two invocations hold the same trail list or does a
\* trail hold a record of another invocation's stage.
C19_InvocationsIsolated ==
    /\ \A i \in Invocations :
        LET tr == TrailOf(runs[i].state, heap)
        IN  /\ \A j \in Invocations :
                (i # j /\ Has(runs[i].state, "audit_trail")
                       /\ Has(runs[j].state, "audit_trail")) =>
                    runs[i].state["audit_trail"] # runs[j].state["audit_trail"]
            /\ IsPrefix(NodeNames(tr), ExpectedOrder)
            /\ (runs[i].pc = "running" =>
                    Len(tr) = PositionOf(runs[i].at) - 1)
            /\ (runs[i].pc = "done" =>
                    \A alone \in {RunSequential(runs[i].input, <<>>, 1)} :
                        /\ ~alone.raised
                        /\ Len(tr) = 8
                        /\ Deref(runs[i].state, heap) = Deref(alone.state, alone.heap))
    /\ \A i \in Invocations : runs[i].pc # "raised"

C19_Witness ==
    /\ runs[1].pc = "done"
    /\ runs[2].pc = "done"
    /\ runs[1].input # runs[2].input
    /\ runs[1].state["audit_trail"] = PyList(2)
    /\ runs[2].state["audit_trail"] = PyList(1)
    /\ runs[1].state["decision"] # runs[2].state["decision"]

\* s with the audit trail of a in place of its own
WithTrail(s, a) == a.state @@ [k \in DOMAIN s \ {"audit_trail"} |-> s[k]]

\* C20: the auditor is advisory: its record carries flag = (uncertainty.overall
\* > 0.8) or (not faithful), its update has no key but audit_trail, and the
\* supervisor decides the same for a given faithful and uncertainty whatever
\* flag the auditor's record carries.
C20_AuditorAdvisory ==
    /\ Returned("auditor") =>
        LET tr == TrailOf(ret.upd, heap)
        IN  /\ DOMAIN ret.upd = {"audit_trail"}
            /\ tr[Len(tr)] = [node |-> "auditor",
                              flag |-> (OverallOf(state) > 80 \/ ~FaithfulOf(state))]
    /\ Returned("supervisor") =>
        \A a \in SignalTrails :
            LET other == supervisor_node(WithTrail(state, a), a.heap)
            IN  ~other.raised => other.upd["decision"] = ret.upd["decision"]

C20_Witness ==
    /\ Returned("auditor")
    /\ FaithfulOf(state)
    /\ OverallOf(state) = 90
    /\ TrailOf(ret.upd, heap) = <<[node |-> "auditor", flag |-> FALSE],
                                  [node |-> "auditor", flag |-> TRUE]>>

\* a generator that was run to its end with no enqueue while it was open
Complete(g) == g.pc = "done" /\ ~g.dirty

\* the lines of a file that hold something other than white space
NonBlank(data) == SelectSeq(TextLines(data), LAMBDA l : ~IsBlank(l))

\* C21: stream() is restartable.  Every generator starts at the first record
\* of the file, whatever an earlier generator has read: what it has yielded is
\* a prefix of the file's records, and run to its end it yields the records
\* the file held at construction followed by the items enqueued before it,
\* also when the generator before it was abandoned part-way.  Two complete
\* iterations with no enqueue between them yield the same sequence; a later
\* one yields the earlier sequence followed by the items enqueued in between.
\* Blank lines yield no record: a complete iteration yields one record for
\* each non-blank line.
C21_StreamRestartable ==
    /\ rd.pc # "none" =>
         /\ rd.pc # "raised"
         /\ IsPrefix(rd.out, Records(dlqFile.data, 1).out)
    /\ Complete(rd) =>
         /\ rd.out = Records(file0.data, 1).out \o SubSeq(enqueued, 1, rd.base)
         /\ Len(rd.out) = Len(NonBlank(file0.data)) + rd.base
    /\ (Complete(rd0) /\ Complete(rd)) =>
         /\ rd.out = rd0.out \o SubSeq(enqueued, rd0.base + 1, rd.base)
         /\ rd.base = rd0.base => rd.out = rd0.out

C21_Witness ==
    /\ file0.data = "{\"id\": 1}\n \t\n\n{\"id\": 2}\n"
    /\ Complete(rd0)
    /\ Len(rd0.out) = 3
    /\ Complete(rd)
    /\ Len(rd.out) = 5
    /\ rd.out[5] = PyDict(<< <<"q", PyStr("a\nb")>> >>)

\* the State with every key outside keys removed
Restrict(s, keys) == [k \in DOMAIN s \cap keys |-> s[k]]

\* the stage that is the first of the schedule to return key k
FirstWriter(k) ==
    ExpectedOrder[CHOOSE i \in 1..Len(ExpectedOrder) :
                    /\ k \in Owned(ExpectedOrder[i])
                    /\ \A j \in 1..(i - 1) : k \notin Owned(ExpectedOrder[j])]

\* C22: the merge of a stage's update sets the keys that stage owns and
\* audit_trail, and leaves every other key of State as it was, present or
\* absent: router sets intent, retriever and ranker retrieved_evidence (the
\* ranker to the list it found), answerer draft_answer and citations,
\* uncertainty uncertainty, validator validation_reports, auditor nothing,
\* supervisor decision; user_query is owned by no stage.  What a stage
\* returns depends only on the keys it reads, and none of these is first
\* returned by a stage that is scheduled after it.
C22_StageFrame ==
    [][(pc = "running" /\ executed' # executed) =>
         \A n \in {Current} :
            /\ \A k \in (DOMAIN state \cup DOMAIN state') \ (Owned(n) \cup {"audit_trail"}) :
                 /\ k \in DOMAIN state
                 /\ k \in DOMAIN state'
                 /\ state'[k] = state[k]
            /\ Owned(n) \cup {"audit_trail"} \subseteq DOMAIN state'
            /\ "user_query" \notin Owned(n)
            /\ n = "ranker" => state'["retrieved_evidence"] = EvidenceOf(state)
            /\ \A r \in {NodeFn(n, Restrict(state, Reads(n)), heap)} :
                 /\ ~r.raised
                 /\ Merge(state, r.upd) = state'
                 /\ r.heap = heap'
            /\ \A k \in Reads(n) \ {"audit_trail", "user_query"} :
                 PositionOf(FirstWriter(k)) <= PositionOf(n)
      ]_vars

C22_Witness ==
    /\ pc = "done"
    /\ executed = ExpectedOrder
    /\ DOMAIN state = {"user_query", "audit_trail", "intent", "retrieved_evidence",
                       "draft_answer", "citations", "uncertainty",
                       "validation_reports", "decision"}
    /\ state["user_query"] = input0.state["user_query"]
    /\ Len(state["retrieved_evidence"]) = 2

\* the records node n left in the trail of State s
RecordsOf(n, s, h) == SelectSeq(TrailOf(s, h), LAMBDA rec : rec.node = n)

\* C23: in the final State of a complete run the signals agree.  Either
\* evidence was retrieved, and uncertainty.overall is 0.1, faithful is true,
\* the auditor's flag is false and decision is "answer"; or none was, and
\* overall is 1.2, faithful is false, the flag is true and decision is "dlq".
\* So decision is "dlq" exactly when retrieved_evidence is empty, and no
\* complete run ends faithful with overall above 0.8.
C23_SignalsAgree ==
    pc = "done" =>
        \A flags \in {RecordsOf("auditor", state, heap)} :
            /\ flags # <<>>
            /\ \/ /\ state["retrieved_evidence"] # <<>>
                  /\ state["uncertainty"]["overall"] = 10
                  /\ state["validation_reports"]["faithful"] = TRUE
                  /\ flags[Len(flags)]["flag"] = FALSE
                  /\ state["decision"] = "answer"
               \/ /\ state["retrieved_evidence"] = <<>>
                  /\ state["uncertainty"]["overall"] = 120
                  /\ state["validation_reports"]["faithful"] = FALSE
                  /\ flags[Len(flags)]["flag"] = TRUE
                  /\ state["decision"] = "dlq"
            /\ state["decision"] = "dlq" <=> state["retrieved_evidence"] = <<>>
            /\ ~(FaithfulOf(state) /\ OverallOf(state) > Threshold)

C23_Witness ==
    /\ pc = "done"
    /\ state["retrieved_evidence"] = <<>>
    /\ state["uncertainty"]["overall"] = 120
    /\ state["decision"] = "dlq"
    /\ RecordsOf("auditor", state, heap) = <<[node |-> "auditor", flag |-> TRUE]>>
    /\ Has(input0.state, "user_query")
    /\ input0.state["user_query"] = PyStr("GDPR of")

\* C24: no step of a /chat request touches the dead-letter queue: every step
\* of build_graph, of the handler and of the stages leaves the FileDLQ and
\* its file as they are.  When a run has decided "dlq" the file holds the
\* records it held before (none, and no file, where there was none), and the
\* escalation is to be found in State's decision field, in the supervisor's
\* record of the audit trail and in the payload returned, nowhere else.
C24_NoDlqCall ==
    /\ [][<<engineVars, stateVars, callVars>>' # <<engineVars, stateVars, callVars>>
            => UNCHANGED dlqVars]_vars
    /\ []((pc = "done" /\ state["decision"] = "dlq") =>
            /\ dlqFile.data = file0.data
            /\ Records(dlqFile.data, 1) = Records(file0.data, 1)
            /\ dlq = "none" => dlqFile = file0
            /\ RecordsOf("supervisor", state, heap)
                 = <<[node |-> "supervisor", decision |-> "dlq"]>>
            /\ ChatPayload(state).decision = "dlq")

C24_Witness ==
    /\ called = "chat"
    /\ ret.upd.decision = "dlq"
    /\ pc = "idle"
    /\ dlq = "ready"
    /\ file0.data = "{\"id\": 1}\n"
    /\ dlqFile = file0

\* the keys some stage returns
StageFields == UNION {Owned(n) : n \in GraphNodes}

\* C25: the fallback runner's invoke works on the dict it is given: from the
\* call on, through every stage and at the return, the caller's dict holds
\* what State holds, and the State returned is that dict.  Given a State whose
\* audit_trail has n records, a complete run ends with n + 8: the n earlier
\* records first, unchanged, then one record of each stage in the fixed order.
\* The stage fields of the final State are those of a run on the same
\* user_query alone: whatever an earlier run left in them is replaced.
C25_InvokeInPlace ==
    /\ (runner = "fallback" /\ pc # "idle") => arg = state
    /\ (runner = "fallback" /\ pc = "done") =>
         \A before \in {TrailOf(input0.state, input0.heap)} :
         \A after \in {TrailOf(state, heap)} :
         \A alone \in {RunSequential(Restrict(input0.state, {"user_query"}), <<>>, 1)} :
            /\ Len(after) = Len(before) + 8
            /\ SubSeq(after, 1, Len(before)) = before
            /\ NodeNames(SubSeq(after, Len(before) + 1, Len(after))) = ExpectedOrder
            /\ ~alone.raised
            /\ \A k \in StageFields : state[k] = alone.state[k]
            /\ DOMAIN state = DOMAIN alone.state \cup DOMAIN input0.state

C25_Witness ==
    /\ runner = "fallback"
    /\ pc = "done"
    /\ Has(input0.state, "decision")
    /\ input0.state["decision"] = "dlq"
    /\ input0.state["retrieved_evidence"] = <<>>
    /\ Len(TrailOf(input0.state, input0.heap)) = 9
    /\ state["decision"] = "answer"
    /\ Len(state["retrieved_evidence"]) = 2
    /\ Len(TrailOf(state, heap)) = 17
    /\ arg = state

=============================================================================
